---- MODULE Spec2Model ----
(***************************************************************************)
(* Model of tools/deploy.py: the driver main() that sequences the export   *)
(* pipeline (torch2onnx, extract_model, onnx2tensorrt, inference_model),   *)
(* each step run by create_process in a fresh worker process that shares   *)
(* the single result flag ret_value with the driver.                      *)
(*                                                                         *)
(* Strings the code takes apart or joins (paths, file names) are tuples of *)
(* one-character strings; strings the code only compares or formats are    *)
(* TLA+ strings.                                                           *)
(***************************************************************************)
EXTENDS Integers, Sequences, FiniteSets, TLC

VARIABLES
    deploy_cfg,        \* the loaded deployment configuration (key -> value)
    work_dir,          \* args.work_dir
    pc,                \* position of the driver in main()
    cp,                \* position of the driver inside create_process
    worker,            \* the worker process: "none", "running", "exited"
    alive,             \* number of worker processes started and not yet ended
    writes,            \* writes to the flag by the worker of the step under way
    ret_value,         \* the shared result flag (mp.Value('d', 0, lock=False))
    onnx_files,        \* local onnx_files of main()
    origin_onnx_file,  \* local origin_onnx_file of main()
    backend_files,     \* local backend_files of main()
    idx,               \* position of the split loop in split_params (1-based)
    model_id,          \* loop variable model_id of the tensorrt loop
    calls,             \* collaborator invocations, in order
    log,               \* log records emitted by the driver, in order
    reads,             \* values the driver read from the flag, in order
    exit_status,       \* exit status of the driver process (NoStatus while alive)
    exc                \* the exception that ended main(), "" if none

vars == <<deploy_cfg, work_dir, pc, cp, worker, alive, writes, ret_value, onnx_files,
          origin_onnx_file, backend_files, idx, model_id, calls, log, reads,
          exit_status, exc>>

----------------------------------------------------------------------------
(* Bounds of the model. *)

MaxSplit == 2      \* longest split_params list
MaxParams == 2     \* longest tensorrt model_params list
MaxWrites == 1     \* most writes one worker makes to the flag

(* Values a worker may store in the flag. *)
FlagValues == {-1, 0, 1}

(* A flag that starts at a failure value. *)
InitialFlagFailure == 0 - 1

(* ret_value = mp.Value('d', 0, lock=False): the value the flag starts at. *)
InitialFlag == 0

(* exit_status of a driver that has not terminated. *)
NoStatus == -1

----------------------------------------------------------------------------
(* Strings as character tuples. *)

Sep == "/"
WorkDirA == <<"/", "w">>
WorkDirB == <<"w", "/">>
OnnxSaveFile == <<"e", ".", "o">>
SplitA == <<"a", ".", "o">>
SplitB == <<"b", ".", "o">>
SplitAbs == <<"/", "w", "/", "a", ".", "o">>
EngineC == <<"c", ".", "e">>
EngineExt == <<".", "e", "n", "g", "i", "n", "e">>

(* Command-line arguments that main() only passes on. *)
ArgImg == "img"
ArgDeployCfg == "deploy_cfg"
ArgModelCfg == "model_cfg"
ArgCheckpoint == <<"c", "k", "p", "t">>
ArgDevice == "cpu"
ArgShow == FALSE

Min(a, b) == IF a < b THEN a ELSE b

(* Largest k in 1..Len(s) with s[k] = c, 0 if there is none (str.rfind + 1). *)
RFind(s, c) ==
    LET hits == {k \in 1..Len(s) : s[k] = c}
    IN  IF hits = {} THEN 0 ELSE CHOOSE k \in hits : \A j \in hits : j <= k

(* osp.join(a, b) of posixpath. *)
Join(a, b) ==
    IF Len(b) > 0 /\ b[1] = Sep THEN b
    ELSE IF Len(a) = 0 \/ a[Len(a)] = Sep THEN a \o b
    ELSE a \o <<Sep>> \o b

(* osp.split(p)[1]: what follows the last separator. *)
SplitTail(p) == SubSeq(p, RFind(p, Sep) + 1, Len(p))

(* osp.splitext(p)[0]: p without its extension; leading dots of the base   *)
(* name are not an extension.                                              *)
SplitextRoot(p) ==
    LET sepIndex == RFind(p, Sep)
        dotIndex == RFind(p, ".")
    IN  IF dotIndex > sepIndex
           /\ \E k \in (sepIndex + 1)..(dotIndex - 1) : p[k] # "."
        THEN SubSeq(p, 1, dotIndex - 1)
        ELSE p

(* dict.get(key, default) *)
Get(d, key, default) == IF key \in DOMAIN d THEN d[key] ELSE default

----------------------------------------------------------------------------
(* The configurations the model draws from. *)

RECURSIVE SeqsUpTo(_, _)
SeqsUpTo(S, n) ==
    IF n = 0 THEN {<<>>}
    ELSE LET shorter == SeqsUpTo(S, n - 1)
         IN  shorter \cup {Append(s, e) : s \in {t \in shorter : Len(t) = n - 1}, e \in S}

SplitEntries ==
    { [save_file |-> SplitA, start |-> "s0", end |-> "e0"],
      [save_file |-> SplitB, start |-> "s1", end |-> "e1"],
      [save_file |-> SplitAbs, start |-> "s0", end |-> "e0"] }

ModelParamEntries ==
    { [opt_shape_dict |-> "shapes"],
      [opt_shape_dict |-> "shapes", save_file |-> EngineC] }

Backends == {"tensorrt", "onnxruntime", "pytorch"}

Empty == [k \in {} |-> FALSE]

(* Every key is optional; a key left out is absent from the mapping. *)
Opt(present, key, value) == IF present THEN key :> value ELSE Empty

TensorrtParams ==
    {Empty} \cup {[model_params |-> mp] : mp \in SeqsUpTo(ModelParamEntries, MaxParams)}

Configs ==
    { Opt(p2o, "pytorch2onnx", [save_file |-> OnnxSaveFile])
      @@ Opt(hasam, "apply_marks", am)
      @@ Opt(hassp, "split_params", sp)
      @@ Opt(hasbe, "backend", be)
      @@ Opt(hastrt, "tensorrt_params", trt)
      @@ Opt(hascb, "codebase", "mmdet") :
        p2o \in BOOLEAN, hasam \in BOOLEAN, am \in BOOLEAN, hassp \in BOOLEAN,
        sp \in SeqsUpTo(SplitEntries, MaxSplit), hasbe \in BOOLEAN, be \in Backends,
        hastrt \in BOOLEAN, trt \in TensorrtParams, hascb \in BOOLEAN }

----------------------------------------------------------------------------
(* Values main() reads from the configuration. *)

apply_marks == Get(deploy_cfg, "apply_marks", FALSE)
split_params == Get(deploy_cfg, "split_params", <<>>)
backend == Get(deploy_cfg, "backend", "default")
model_params == Get(Get(deploy_cfg, "tensorrt_params", Empty), "model_params", <<>>)

(* A save_path always taken from the first split entry. *)
SplitSavePathFirst(k) == Join(work_dir, split_params[1].save_file)

(* save_path of the split entry at position k. *)
SplitSavePath(k) == Join(work_dir, split_params[k].save_file)

(* A save_file that is always the default name. *)
EngineSaveFileIgnoresParam(model_param, onnx_path) ==
    SplitextRoot(SplitTail(onnx_path)) \o EngineExt

(* save_file of the tensorrt loop for the pair (model_param, onnx_path). *)
EngineSaveFile(model_param, onnx_path) ==
    Get(model_param, "save_file", SplitextRoot(SplitTail(onnx_path)) \o EngineExt)

(* output_file of the two visualizations: f'output_{backend}.jpg' and      *)
(* 'output_pytorch.jpg'.                                                   *)
PytorchOutputFile == "output_pytorch.jpg"

(* A backend output_file that ignores the backend. *)
BackendOutputFileUntagged(b) == PytorchOutputFile

BackendOutputFile(b) == "output_" \o b \o ".jpg"

(* A loop that stops one round early. *)
ZipLenShort == Min(Len(model_params), Len(onnx_files)) - 1

(* Number of rounds of the loop over zip(range(len(onnx_files)),           *)
(* model_params, onnx_files): zip stops at the shortest.                   *)
ZipLen == Min(Len(model_params), Len(onnx_files))

(* exit(): SystemExit with no code ends the process with status 0. *)
ExitArgs == <<>>
ExitStatusOf(args) == IF Len(args) = 0 THEN 0 ELSE args[1] % 256

(* An exception nobody catches ends the process with status 1. *)
UncaughtStatus == 1

----------------------------------------------------------------------------
Init ==
    /\ deploy_cfg \in Configs
    /\ work_dir \in {WorkDirA, WorkDirB}
    /\ pc = "torch2onnx"
    /\ cp = "idle"
    /\ worker = "none"
    /\ alive = 0
    /\ writes = 0
    /\ ret_value = InitialFlag
    /\ onnx_files = <<>>
    /\ origin_onnx_file = <<>>
    /\ backend_files = <<>>
    /\ idx = 1
    /\ model_id = 0
    /\ calls = <<>>
    /\ log = <<>>
    /\ reads = <<>>
    /\ exit_status = NoStatus
    /\ exc = ""

locals == <<onnx_files, origin_onnx_file, backend_files, idx, model_id>>
inputs == <<deploy_cfg, work_dir>>
outcome == <<exit_status, exc>>

(* main() dies of an uncaught exception. *)
Raise(e) ==
    /\ pc' = "raised"
    /\ exc' = e
    /\ exit_status' = UncaughtStatus

(* A create_process that starts the worker and does not join it. *)
CreateProcessNoJoin(name, call) ==
    /\ log' = Append(log, [level |-> "info", step |-> name, msg |-> "start"])
    /\ calls' = Append(calls, call)
    /\ worker' = "running"
    /\ alive' = alive + 1
    /\ writes' = 0
    /\ cp' = "check"

(* create_process up to process.start(): the worker runs the target and   *)
(* the driver goes on to process.join().                                   *)
CreateProcess(name, call) ==
    /\ log' = Append(log, [level |-> "info", step |-> name, msg |-> "start"])
    /\ calls' = Append(calls, call)
    /\ worker' = "running"
    /\ alive' = alive + 1
    /\ writes' = 0
    /\ cp' = "join"

(* A main() that returns after the backend visualization. *)
ContinueSkipReference(at) ==
    CASE at = "torch2onnx" -> "onnx_files"
      [] at = "split" -> "split_append"
      [] at = "tensorrt" -> "tensorrt_append"
      [] at = "visualize_backend" -> "all_success"
      [] at = "visualize_pytorch" -> "all_success"

(* The position main() continues at when create_process returns. *)
Continue(at) ==
    CASE at = "torch2onnx" -> "onnx_files"
      [] at = "split" -> "split_append"
      [] at = "tensorrt" -> "tensorrt_append"
      [] at = "visualize_backend" -> "visualize_pytorch"
      [] at = "visualize_pytorch" -> "all_success"

(* The worker stores v in the flag. *)
WorkerWrite(v) ==
    /\ worker = "running"
    /\ writes < MaxWrites
    /\ ret_value' = v
    /\ writes' = writes + 1
    /\ UNCHANGED <<inputs, alive, pc, cp, worker, locals, calls, log, reads, outcome>>

(* The worker process ends, whether or not it wrote the flag. *)
WorkerExit ==
    /\ worker = "running"
    /\ worker' = "exited"
    /\ alive' = alive - 1
    /\ UNCHANGED <<inputs, pc, cp, writes, ret_value, locals, calls, log, reads, outcome>>

(* A join that gives up waiting: it also returns while the worker runs. *)
ProcessJoinTimeout ==
    /\ cp = "join"
    /\ worker \in {"running", "exited"}
    /\ cp' = "check"
    /\ worker' = IF worker = "exited" THEN "none" ELSE worker
    /\ UNCHANGED <<inputs, alive, pc, writes, ret_value, locals, calls, log, reads, outcome>>

(* A join that returns only for a worker that wrote the flag. *)
ProcessJoinAwaitsWrite ==
    /\ cp = "join"
    /\ worker = "exited"
    /\ writes > 0
    /\ cp' = "check"
    /\ worker' = "none"
    /\ UNCHANGED <<inputs, alive, pc, writes, ret_value, locals, calls, log, reads, outcome>>

(* process.join() returns once the worker has ended. *)
ProcessJoin ==
    /\ cp = "join"
    /\ worker = "exited"
    /\ cp' = "check"
    /\ worker' = "none"
    /\ UNCHANGED <<inputs, alive, pc, writes, ret_value, locals, calls, log, reads, outcome>>

(* A flag test that takes only positive values for failures. *)
FailedIfPositive(v) == v > 0

(* ret_value.value != 0 *)
Failed(v) == v # 0

(* A flag test that logs the failure and returns to main() all the same. *)
ContinueOnFailure ==
    /\ cp = "check"
    /\ reads' = Append(reads, ret_value)
    /\ log' = Append(log, IF Failed(ret_value)
                          THEN [level |-> "error", step |-> pc, msg |-> "failed"]
                          ELSE [level |-> "info", step |-> pc, msg |-> "success"])
    /\ cp' = "idle"
    /\ pc' = Continue(pc)
    /\ writes' = 0
    /\ UNCHANGED <<inputs, alive, worker, ret_value, locals, calls, outcome>>

(* The flag test of create_process (every call site passes ret_value):     *)
(* exit() on a non-zero flag, return to main() otherwise.                  *)
CheckRet ==
    /\ cp = "check"
    /\ reads' = Append(reads, ret_value)
    /\ IF Failed(ret_value)
       THEN /\ log' = Append(log, [level |-> "error", step |-> pc, msg |-> "failed"])
            /\ pc' = "exited"
            /\ cp' = "idle"
            /\ exit_status' = ExitStatusOf(ExitArgs)
            /\ UNCHANGED exc
       ELSE /\ log' = Append(log, [level |-> "info", step |-> pc, msg |-> "success"])
            /\ pc' = Continue(pc)
            /\ cp' = "idle"
            /\ UNCHANGED outcome
    /\ writes' = 0
    /\ UNCHANGED <<inputs, alive, worker, ret_value, locals, calls>>

----------------------------------------------------------------------------
(* main(), from the construction of the flag on. *)

(* "convert onnx": read the save_file of pytorch2onnx and run torch2onnx. *)
TorchToOnnx ==
    /\ pc = "torch2onnx"
    /\ cp = "idle"
    /\ IF "pytorch2onnx" \notin DOMAIN deploy_cfg
       THEN /\ Raise("KeyError")
            /\ UNCHANGED <<cp, worker, alive, writes, calls, log>>
       ELSE /\ CreateProcess("torch2onnx",
                   [fn |-> "torch2onnx",
                    args |-> <<ArgImg, work_dir, deploy_cfg["pytorch2onnx"].save_file,
                               ArgDeployCfg, ArgModelCfg, ArgCheckpoint>>,
                    kwargs |-> [device |-> ArgDevice]])
            /\ UNCHANGED <<pc, outcome>>
    /\ UNCHANGED <<inputs, ret_value, locals, reads>>

(* A head of "split model" that skips the stage when split_params is      *)
(* absent.                                                                 *)
OnnxFilesSkipSplit ==
    /\ pc = "onnx_files"
    /\ LET exported == <<Join(work_dir, deploy_cfg["pytorch2onnx"].save_file)>>
       IN  IF apply_marks /\ "split_params" \in DOMAIN deploy_cfg
           THEN /\ origin_onnx_file' = exported[1]
                /\ onnx_files' = <<>>
                /\ idx' = 1
                /\ pc' = "split"
           ELSE /\ onnx_files' = exported
                /\ pc' = "backend"
                /\ UNCHANGED <<origin_onnx_file, idx>>
    /\ UNCHANGED <<inputs, alive, cp, worker, writes, ret_value, backend_files, model_id,
                   calls, log, reads, outcome>>

(* A head of "split model" that keeps the exported file in onnx_files. *)
OnnxFilesKeepExported ==
    /\ pc = "onnx_files"
    /\ LET exported == <<Join(work_dir, deploy_cfg["pytorch2onnx"].save_file)>>
       IN  IF apply_marks
           THEN IF "split_params" \in DOMAIN deploy_cfg
                THEN /\ origin_onnx_file' = exported[1]
                     /\ onnx_files' = exported
                     /\ idx' = 1
                     /\ pc' = "split"
                     /\ UNCHANGED outcome
                ELSE /\ onnx_files' = exported
                     /\ Raise("AssertionError")
                     /\ UNCHANGED <<origin_onnx_file, idx>>
           ELSE /\ onnx_files' = exported
                /\ pc' = "backend"
                /\ UNCHANGED <<origin_onnx_file, idx, outcome>>
    /\ UNCHANGED <<inputs, alive, cp, worker, writes, ret_value, backend_files, model_id,
                   calls, log, reads>>

(* onnx_files after the export, and the head of "split model". *)
OnnxFiles ==
    /\ pc = "onnx_files"
    /\ LET exported == <<Join(work_dir, deploy_cfg["pytorch2onnx"].save_file)>>
       IN  IF apply_marks
           THEN IF "split_params" \in DOMAIN deploy_cfg
                THEN /\ origin_onnx_file' = exported[1]
                     /\ onnx_files' = <<>>
                     /\ idx' = 1
                     /\ pc' = "split"
                     /\ UNCHANGED outcome
                ELSE /\ onnx_files' = exported
                     /\ Raise("AssertionError")
                     /\ UNCHANGED <<origin_onnx_file, idx>>
           ELSE /\ onnx_files' = exported
                /\ pc' = "backend"
                /\ UNCHANGED <<origin_onnx_file, idx, outcome>>
    /\ UNCHANGED <<inputs, alive, cp, worker, writes, ret_value, backend_files, model_id,
                   calls, log, reads>>

(* One round of the loop over split_params, up to create_process. *)
SplitModel ==
    /\ pc = "split"
    /\ cp = "idle"
    /\ IF idx > Len(split_params)
       THEN /\ pc' = "backend"
            /\ UNCHANGED <<cp, worker, alive, writes, calls, log>>
       ELSE /\ CreateProcess("split model",
                   [fn |-> "extract_model",
                    args |-> <<origin_onnx_file, split_params[idx].start,
                               split_params[idx].end>>,
                    kwargs |-> [save_file |-> SplitSavePath(idx)]])
            /\ UNCHANGED pc
    /\ UNCHANGED <<inputs, ret_value, locals, reads, outcome>>

(* onnx_files.append(save_path) *)
SplitAppend ==
    /\ pc = "split_append"
    /\ onnx_files' = Append(onnx_files, SplitSavePath(idx))
    /\ idx' = idx + 1
    /\ pc' = "split"
    /\ UNCHANGED <<inputs, alive, cp, worker, writes, ret_value, origin_onnx_file,
                   backend_files, model_id, calls, log, reads, outcome>>

(* backend == 'tensorrt' *)
IsTensorrt(b) == b = "tensorrt"

(* Length tests that let a mismatch through. *)
ParamsMatchAtMost(params, files) == Len(params) <= Len(files)
ParamsMatchAlways(params, files) == TRUE

(* len(model_params) == len(onnx_files) *)
ParamsMatch(params, files) == Len(params) = Len(files)

(* A backend_files that starts empty. *)
DefaultBackendFilesEmpty(files) == <<>>

(* backend_files = onnx_files *)
DefaultBackendFiles(files) == files

(* backend_files = onnx_files, and the head of "convert backend". *)
ConvertBackend ==
    /\ pc = "backend"
    /\ IF IsTensorrt(backend)
       THEN IF "tensorrt_params" \in DOMAIN deploy_cfg
               /\ ParamsMatch(model_params, onnx_files)
            THEN /\ backend_files' = <<>>
                 /\ model_id' = 0
                 /\ pc' = "tensorrt"
                 /\ UNCHANGED outcome
            ELSE /\ backend_files' = DefaultBackendFiles(onnx_files)
                 /\ Raise("AssertionError")
                 /\ UNCHANGED model_id
       ELSE /\ backend_files' = DefaultBackendFiles(onnx_files)
            /\ pc' = "visualize_backend"
            /\ UNCHANGED <<model_id, outcome>>
    /\ UNCHANGED <<inputs, alive, cp, worker, writes, ret_value, onnx_files,
                   origin_onnx_file, idx, calls, log, reads>>

(* One round of the loop over zip(...), up to create_process. *)
OnnxToTensorrt ==
    /\ pc = "tensorrt"
    /\ cp = "idle"
    /\ IF model_id >= ZipLen
       THEN /\ pc' = "visualize_backend"
            /\ UNCHANGED <<cp, worker, alive, writes, calls, log>>
       ELSE /\ CreateProcess("onnx2tensorrt",
                   [fn |-> "onnx2tensorrt",
                    args |-> <<work_dir,
                               EngineSaveFile(model_params[model_id + 1],
                                              onnx_files[model_id + 1]),
                               model_id, ArgDeployCfg, onnx_files[model_id + 1]>>,
                    kwargs |-> [device |-> ArgDevice]])
            /\ UNCHANGED pc
    /\ UNCHANGED <<inputs, ret_value, locals, reads, outcome>>

(* backend_files.append(osp.join(args.work_dir, save_file)) *)
TensorrtAppend ==
    /\ pc = "tensorrt_append"
    /\ backend_files' =
           Append(backend_files,
                  Join(work_dir, EngineSaveFile(model_params[model_id + 1],
                                                onnx_files[model_id + 1])))
    /\ model_id' = model_id + 1
    /\ pc' = "tensorrt"
    /\ UNCHANGED <<inputs, alive, cp, worker, writes, ret_value, onnx_files,
                   origin_onnx_file, idx, calls, log, reads, outcome>>

(* Read codebase and "visualize model of the backend". *)
VisualizeBackend ==
    /\ pc = "visualize_backend"
    /\ cp = "idle"
    /\ IF "codebase" \notin DOMAIN deploy_cfg
       THEN /\ Raise("KeyError")
            /\ UNCHANGED <<cp, worker, alive, writes, calls, log>>
       ELSE /\ CreateProcess("visualize backend model",
                   [fn |-> "inference_model",
                    args |-> <<ArgModelCfg, backend_files, ArgImg>>,
                    kwargs |-> [codebase |-> deploy_cfg["codebase"],
                                backend |-> backend,
                                device |-> ArgDevice,
                                output_file |-> BackendOutputFile(backend),
                                show_result |-> ArgShow]])
            /\ UNCHANGED <<pc, outcome>>
    /\ UNCHANGED <<inputs, ret_value, locals, reads>>

(* "visualize pytorch model" *)
VisualizePytorch ==
    /\ pc = "visualize_pytorch"
    /\ cp = "idle"
    /\ CreateProcess("visualize pytorch model",
           [fn |-> "inference_model",
            args |-> <<ArgModelCfg, <<ArgCheckpoint>>, ArgImg>>,
            kwargs |-> [codebase |-> deploy_cfg["codebase"],
                        backend |-> "pytorch",
                        device |-> ArgDevice,
                        output_file |-> PytorchOutputFile,
                        show_result |-> ArgShow]])
    /\ UNCHANGED <<inputs, pc, ret_value, locals, reads, outcome>>

(* logging.info('All process success.') and the return of main(). *)
AllSuccess ==
    /\ pc = "all_success"
    /\ log' = Append(log, [level |-> "info", step |-> "main", msg |-> "All process success."])
    /\ pc' = "done"
    /\ exit_status' = 0
    /\ UNCHANGED <<inputs, alive, cp, worker, writes, ret_value, locals, calls, reads, exc>>

Next ==
    \/ TorchToOnnx
    \/ OnnxFiles
    \/ SplitModel
    \/ SplitAppend
    \/ ConvertBackend
    \/ OnnxToTensorrt
    \/ TensorrtAppend
    \/ VisualizeBackend
    \/ VisualizePytorch
    \/ AllSuccess
    \/ \E v \in FlagValues : WorkerWrite(v)
    \/ WorkerExit
    \/ ProcessJoin
    \/ CheckRet

Spec == Init /\ [][Next]_vars

(* The steps of the driver process. *)
Driver ==
    \/ TorchToOnnx
    \/ OnnxFiles
    \/ SplitModel
    \/ SplitAppend
    \/ ConvertBackend
    \/ OnnxToTensorrt
    \/ TensorrtAppend
    \/ VisualizeBackend
    \/ VisualizePytorch
    \/ AllSuccess
    \/ ProcessJoin
    \/ CheckRet

(* The runs with one work directory: the directory only shows in the      *)
(* paths handed on, never in what main() does next.                        *)
LiveInit == Init /\ work_dir = WorkDirA

(* The driver keeps running while it can, and every worker started ends. *)
LiveSpec == LiveInit /\ [][Next]_vars /\ WF_vars(Driver) /\ WF_vars(WorkerExit)

----------------------------------------------------------------------------
(* Vocabulary of the properties. *)

(* Positions of the invocations of collaborator f, and their number. *)
CallsOf(f) == {k \in DOMAIN calls : calls[k].fn = f}
Count(f) == Cardinality(CallsOf(f))

(* The invocations of inference_model, in order. *)
IsInference(c) == c.fn = "inference_model"
InferenceCalls == SelectSeq(calls, IsInference)

(* Some step's flag was read as non-zero. *)
SomeReadNonZero == \E k \in DOMAIN reads : reads[k] # 0

AllSuccessLogged == \E k \in DOMAIN log : log[k].msg = "All process success."

(* Positions of main() past the split stage, and past the backend stage. *)
PastSplit == {"backend", "tensorrt", "tensorrt_append", "visualize_backend",
              "visualize_pytorch", "all_success", "done"}
PastBackendHead == PastSplit \ {"backend"}
PastBackend == PastBackendHead \ {"tensorrt", "tensorrt_append"}

(* What the configuration says, read without the driver's helpers. *)
CfgApplyMarks == "apply_marks" \in DOMAIN deploy_cfg /\ deploy_cfg["apply_marks"]
CfgBackend == IF "backend" \in DOMAIN deploy_cfg THEN deploy_cfg["backend"] ELSE "default"
CfgSplitParams ==
    IF "split_params" \in DOMAIN deploy_cfg THEN deploy_cfg["split_params"] ELSE <<>>
CfgModelParams ==
    IF "tensorrt_params" \in DOMAIN deploy_cfg
       /\ "model_params" \in DOMAIN deploy_cfg["tensorrt_params"]
    THEN deploy_cfg["tensorrt_params"]["model_params"]
    ELSE <<>>

(* The intermediate-file list the configuration asks for: the exported     *)
(* file, or the split outputs in declaration order.                        *)
ExpectedOnnxFiles ==
    IF CfgApplyMarks
    THEN [k \in 1..Len(CfgSplitParams) |-> Join(work_dir, CfgSplitParams[k].save_file)]
    ELSE <<Join(work_dir, OnnxSaveFile)>>

PairwiseDifferent(seq) ==
    \A j, k \in DOMAIN seq : j # k => seq[j] # seq[k]

----------------------------------------------------------------------------
(* C1: short-circuit on failure.  The k-th flag read belongs to the k-th   *)
(* collaborator invocation; once a read returned a non-zero value, the     *)
(* invocation it belongs to is the last one of the run: no collaborator of *)
(* a later step is ever invoked.                                           *)
C1_ShortCircuit ==
    /\ Len(reads) <= Len(calls)
    /\ \A k \in DOMAIN reads : reads[k] # 0 => Len(calls) = k

(* A run that failed at its third step or later and went no further. *)
C1_Witness ==
    /\ pc = "exited"
    /\ Len(reads) >= 3
    /\ reads[Len(reads)] # 0
    /\ Len(calls) = Len(reads)

(* C2: when a step fails (its flag is read as non-zero) the driver process *)
(* terminates with a non-zero exit status.                                 *)
C2_FailureExitsNonZero ==
    SomeReadNonZero => (pc = "exited" /\ exit_status \notin {NoStatus, 0})

(* C3: 'All process success.' is logged only in runs in which every step   *)
(* executed had its flag read, and read as zero; it is never logged in a   *)
(* run in which some step's flag was read as non-zero.                     *)
C3_SuccessOnlyIfAllZero ==
    AllSuccessLogged =>
        /\ Len(reads) = Len(calls)
        /\ \A k \in DOMAIN reads : reads[k] = 0
        /\ ~SomeReadNonZero

(* Overall success logged after a run with splits and compiles. *)
C3_Witness ==
    /\ AllSuccessLogged
    /\ Len(reads) >= 5

(* C4: with apply_marks false the split collaborator is never invoked and  *)
(* the export collaborator at most once; on a run in which all steps       *)
(* succeed the export collaborator is invoked exactly once and, with the   *)
(* 'tensorrt' backend, the backend-compile collaborator exactly once: once *)
(* for the single exported file.                                           *)
C4_NoMarksCounts ==
    ~CfgApplyMarks =>
        /\ Count("extract_model") = 0
        /\ Count("torch2onnx") <= 1
        /\ pc = "done" =>
             /\ Count("torch2onnx") = 1
             /\ CfgBackend = "tensorrt" =>
                  /\ Count("onnx2tensorrt") = 1
                  /\ Len(onnx_files) = 1
                  /\ \A k \in CallsOf("onnx2tensorrt") : calls[k].args[5] = onnx_files[1]

(* A successful tensorrt run without marks. *)
C4_Witness ==
    /\ pc = "done"
    /\ ~CfgApplyMarks
    /\ CfgBackend = "tensorrt"
    /\ Count("onnx2tensorrt") = 1

(* C5: with apply_marks true and N split entries, never more than N split  *)
(* invocations occur; once all splits succeeded exactly N have occurred,   *)
(* and with the 'tensorrt' backend and N model_params entries exactly N    *)
(* backend-compile invocations have occurred once the compile stage is     *)
(* passed.                                                                 *)
C5_MarksCounts ==
    (CfgApplyMarks /\ "split_params" \in DOMAIN deploy_cfg) =>
        LET N == Len(CfgSplitParams)
        IN  /\ Count("extract_model") <= N
            /\ pc \in PastSplit => Count("extract_model") = N
            /\ (pc \in PastBackend /\ CfgBackend = "tensorrt" /\ Len(CfgModelParams) = N)
                   => Count("onnx2tensorrt") = N

(* A successful tensorrt run with two splits and two compiles. *)
C5_Witness ==
    /\ pc = "done"
    /\ CfgApplyMarks
    /\ CfgBackend = "tensorrt"
    /\ Len(CfgSplitParams) = 2
    /\ Count("extract_model") = 2
    /\ Count("onnx2tensorrt") = 2

(* The save_file names of the split entries are pairwise different and     *)
(* none is an absolute path.                                               *)
SplitNamesDistinctRelative ==
    /\ PairwiseDifferent([k \in DOMAIN CfgSplitParams |-> CfgSplitParams[k].save_file])
    /\ \A k \in DOMAIN CfgSplitParams :
           LET name == CfgSplitParams[k].save_file
           IN  Len(name) = 0 \/ name[1] # Sep

(* The save_file arguments of the split invocations, in order. *)
IsSplit(c) == c.fn = "extract_model"
SplitOutputs ==
    LET sc == SelectSeq(calls, IsSplit)
    IN  [k \in DOMAIN sc |-> sc[k].kwargs.save_file]

(* C6, as claimed: with apply_marks true the output paths of the split     *)
(* invocations, accumulated into the intermediate-file list, are pairwise  *)
(* different, whatever the configuration.                                  *)
C6_OutputsDistinct ==
    (CfgApplyMarks /\ pc \in PastSplit \cup {"split", "split_append"}) =>
        /\ PairwiseDifferent(onnx_files)
        /\ PairwiseDifferent(SplitOutputs)

(* C6, amended: with apply_marks true and split entries whose save_file    *)
(* names are pairwise different relative paths, the output paths of the    *)
(* split invocations, accumulated into the intermediate-file list, are     *)
(* pairwise different.                                                     *)
C6_OutputsDistinctForDistinctNames ==
    (CfgApplyMarks /\ pc \in PastSplit \cup {"split", "split_append"}
       /\ SplitNamesDistinctRelative) =>
        /\ PairwiseDifferent(onnx_files)
        /\ PairwiseDifferent(SplitOutputs)

(* Two splits with different relative names done. *)
C6_Witness ==
    /\ CfgApplyMarks
    /\ pc \in PastSplit
    /\ SplitNamesDistinctRelative
    /\ Len(onnx_files) = 2
    /\ Len(SplitOutputs) = 2

(* With the 'tensorrt' backend the driver is past the head of the backend  *)
(* stage only with as many model_params entries as intermediate files; a   *)
(* configuration whose numbers differ gets no backend-compile and no       *)
(* visualization invocation.                                               *)
NeverPastMismatch ==
    /\ (CfgBackend = "tensorrt" /\ pc \in PastBackendHead)
           => Len(CfgModelParams) = Len(onnx_files)
    /\ (CfgBackend = "tensorrt" /\ Len(CfgModelParams) # Len(ExpectedOnnxFiles))
           => /\ Count("onnx2tensorrt") = 0
              /\ Count("inference_model") = 0
              /\ pc \notin PastBackendHead

(* The step taken at the head of the backend stage with differing numbers  *)
(* raises AssertionError and invokes nothing.                              *)
RaisesAtMismatch ==
    (pc = "backend" /\ CfgBackend = "tensorrt" /\ Len(CfgModelParams) # Len(onnx_files))
        => (pc' = "raised" /\ exc' = "AssertionError" /\ exit_status' # 0 /\ calls' = calls)

(* C7: with the 'tensorrt' backend and a number of model_params entries    *)
(* that differs from the number of intermediate files, the step the driver *)
(* takes at the head of the backend stage raises an error and invokes      *)
(* nothing; the driver never gets past that head, and no backend-compile   *)
(* or visualization invocation happens in the run.                         *)
C7_MismatchRaises == []NeverPastMismatch /\ [][RaisesAtMismatch]_vars

(* The assertion on the lengths raised after export and splits succeeded. *)
C7_Witness ==
    /\ pc = "raised"
    /\ exc = "AssertionError"
    /\ CfgBackend = "tensorrt"
    /\ "tensorrt_params" \in DOMAIN deploy_cfg
    /\ Len(CfgModelParams) # Len(onnx_files)
    /\ onnx_files = ExpectedOnnxFiles
    /\ Len(calls) >= 2
    /\ Count("onnx2tensorrt") = 0

(* C8: with a backend other than 'tensorrt' no backend-compile invocation  *)
(* occurs, and the file list given to the backend visualization (the       *)
(* first inference_model invocation) is the intermediate-file list: the    *)
(* single exported file, or the split outputs in declaration order.        *)
C8_NonTensorrtFilesUnchanged ==
    CfgBackend # "tensorrt" =>
        /\ Count("onnx2tensorrt") = 0
        /\ Len(InferenceCalls) >= 1 =>
             /\ InferenceCalls[1].args[2] = onnx_files
             /\ InferenceCalls[1].args[2] = ExpectedOnnxFiles

(* The backend visualization of a non-tensorrt run with two splits. *)
C8_Witness ==
    /\ CfgBackend # "tensorrt"
    /\ CfgApplyMarks
    /\ Len(InferenceCalls) >= 1
    /\ Len(InferenceCalls[1].args[2]) = 2

(* C9: on a fully successful run exactly two inference_model invocations   *)
(* occur, and they are the last two invocations of the run: first the one  *)
(* tagged with the configured backend and given the backend-file list,     *)
(* then the one tagged 'pytorch' and given the original checkpoint.        *)
C9_TwoVisualizations ==
    pc = "done" =>
        /\ Len(InferenceCalls) = 2
        /\ Len(calls) >= 2
        /\ calls[Len(calls) - 1] = InferenceCalls[1]
        /\ calls[Len(calls)] = InferenceCalls[2]
        /\ InferenceCalls[1].kwargs.backend = CfgBackend
        /\ InferenceCalls[1].args[2] = backend_files
        /\ InferenceCalls[2].kwargs.backend = "pytorch"
        /\ InferenceCalls[2].args[2] = <<ArgCheckpoint>>

(* A successful tensorrt run whose backend visualization got two engines. *)
C9_Witness ==
    /\ pc = "done"
    /\ CfgBackend = "tensorrt"
    /\ Len(InferenceCalls) = 2
    /\ Len(backend_files) = 2
    /\ backend_files # onnx_files

(* C10, as claimed: whatever the configured backend, the two               *)
(* visualizations write different files.                                   *)
C10_OutputFilesDiffer ==
    Len(InferenceCalls) = 2 =>
        InferenceCalls[1].kwargs.output_file # InferenceCalls[2].kwargs.output_file

(* C10, amended: for every configured backend other than 'pytorch', the    *)
(* two visualizations write different files.                               *)
C10_OutputFilesDifferUnlessPytorch ==
    (Len(InferenceCalls) = 2 /\ CfgBackend # "pytorch") =>
        InferenceCalls[1].kwargs.output_file # InferenceCalls[2].kwargs.output_file

(* Both visualizations of a successful run with a backend that is not      *)
(* 'pytorch'.                                                              *)
C10_Witness ==
    /\ pc = "done"
    /\ Len(InferenceCalls) = 2
    /\ CfgBackend # "pytorch"
    /\ InferenceCalls[1].kwargs.output_file = "output_onnxruntime.jpg"

----------------------------------------------------------------------------
(* C11: steps never run concurrently.  At most one worker process is alive *)
(* in any reachable state; while one is alive the driver is inside         *)
(* process.join(), and anywhere else no worker is alive, so the worker of  *)
(* the next step is started only after the previous one has exited.        *)
C11_OneWorkerAtATime ==
    /\ alive \in {0, 1}
    /\ worker = "running" <=> alive = 1
    /\ alive = 1 => cp = "join"
    /\ cp # "join" => alive = 0

(* The worker of a third step alive, the first two having exited. *)
C11_Witness ==
    /\ alive = 1
    /\ worker = "running"
    /\ Len(calls) = 3
    /\ Len(reads) = 2

(* No worker is alive while the driver is at the flag test, and the driver *)
(* has read the flag once for every step whose worker it has joined.       *)
ReadsFollowJoins ==
    /\ cp = "check" => (alive = 0 /\ worker = "none" /\ Len(reads) + 1 = Len(calls))
    /\ cp = "join" => Len(reads) + 1 = Len(calls)
    /\ cp = "idle" => Len(reads) = Len(calls)

(* A step that reads the flag is taken with no worker alive, reads it once *)
(* and does not change it; a step that writes the flag is taken while the  *)
(* driver waits in process.join(), and the driver reads nothing in it.     *)
ReadsApartFromWrites ==
    /\ reads' # reads =>
         /\ alive = 0
         /\ worker = "none"
         /\ reads' = Append(reads, ret_value)
         /\ ret_value' = ret_value
    /\ (ret_value' # ret_value \/ writes' > writes) =>
         /\ cp = "join" /\ cp' = "join"
         /\ worker = "running"
         /\ reads' = reads

(* C12: the flag is never accessed concurrently.  The driver reads the     *)
(* flag once per step and only after that step's worker has exited and     *)
(* been joined; no read of the driver falls between the start and the end  *)
(* of a worker, where the writes are.                                      *)
C12_NoConcurrentFlagAccess == []ReadsFollowJoins /\ [][ReadsApartFromWrites]_vars

(* The driver about to read a flag the worker of the second step wrote. *)
C12_Witness ==
    /\ cp = "check"
    /\ writes = 1
    /\ ret_value # 0
    /\ Len(calls) = 2
    /\ alive = 0

(* C13: whenever the driver is about to start the worker of a step, and    *)
(* until that worker writes it, the flag holds the success value 0: a      *)
(* non-zero value read after a step was written by that step's own worker. *)
C13_FlagZeroAtStart ==
    /\ (cp = "idle" /\ pc \notin {"exited", "raised", "done"}) => ret_value = 0
    /\ (worker \in {"running", "exited"} /\ writes = 0) => ret_value = 0
    /\ (cp = "check" /\ ret_value # 0) => writes > 0

(* The worker of a third step started with the flag at 0, and has not      *)
(* written it yet.                                                         *)
C13_Witness ==
    /\ worker = "running"
    /\ writes = 0
    /\ ret_value = 0
    /\ Len(calls) = 3

----------------------------------------------------------------------------
(* The configuration errors: apply_marks without split_params; the         *)
(* 'tensorrt' backend without tensorrt_params, or with a number of         *)
(* model_params entries other than the number of intermediate files.       *)
MissingSplitParams == CfgApplyMarks /\ "split_params" \notin DOMAIN deploy_cfg
TensorrtConfigError ==
    /\ CfgBackend = "tensorrt"
    /\ \/ "tensorrt_params" \notin DOMAIN deploy_cfg
       \/ Len(CfgModelParams) # Len(ExpectedOnnxFiles)
ConfigError == MissingSplitParams \/ TensorrtConfigError

(* With apply_marks and no split_params the driver never enters the split  *)
(* stage or a later one, invokes no split, backend-compile or              *)
(* visualization collaborator and never logs overall success.              *)
NothingAfterMissingSplitParams ==
    MissingSplitParams =>
        /\ Count("extract_model") = 0
        /\ Count("onnx2tensorrt") = 0
        /\ Count("inference_model") = 0
        /\ ~AllSuccessLogged
        /\ pc \notin PastSplit \cup {"split", "split_append"}

(* The step taken at the head of the split stage with apply_marks and no   *)
(* split_params raises AssertionError and invokes nothing.                 *)
RaisesAtMissingSplitParams ==
    (pc = "onnx_files" /\ MissingSplitParams)
        => (pc' = "raised" /\ exc' = "AssertionError" /\ exit_status' # 0 /\ calls' = calls)

(* C14: if apply_marks is true and split_params is absent, the driver      *)
(* fails with an error at the head of the split stage instead of skipping  *)
(* it: no split, backend-compile or visualization invocation occurs and    *)
(* overall success is never logged.                                        *)
C14_MissingSplitParamsFails ==
    []NothingAfterMissingSplitParams /\ [][RaisesAtMissingSplitParams]_vars

(* The assertion on split_params raised after the export succeeded. *)
C14_Witness ==
    /\ MissingSplitParams
    /\ pc = "raised"
    /\ exc = "AssertionError"
    /\ Len(calls) = 1
    /\ reads = <<0>>

(* C15, as claimed: a configuration error is raised before the export      *)
(* worker or any other collaborator worker has been started.               *)
C15_ConfigErrorBeforeAnyWorker ==
    ConfigError => Len(calls) = 0

(* C15, amended: a configuration error is raised at the head of the stage  *)
(* that needs the section, before any worker of that stage or of a later   *)
(* one is started, and never leads to overall success.  Missing            *)
(* split_params is raised once the export step has run and succeeded, with *)
(* torch2onnx the only invocation; missing tensorrt_params or a mismatched *)
(* model_params length is raised once the export and every split step have *)
(* run and succeeded, with no backend-compile or visualization invocation. *)
C15_ConfigErrorAtStageHead ==
    /\ ConfigError => ~AllSuccessLogged
    /\ MissingSplitParams =>
         /\ Count("extract_model") = 0
         /\ Count("onnx2tensorrt") = 0
         /\ Count("inference_model") = 0
         /\ exc = "AssertionError" =>
              /\ Len(calls) = 1
              /\ calls[1].fn = "torch2onnx"
              /\ reads = <<0>>
    /\ (TensorrtConfigError /\ ~MissingSplitParams) =>
         /\ Count("onnx2tensorrt") = 0
         /\ Count("inference_model") = 0
         /\ pc \notin PastBackendHead
         /\ exc = "AssertionError" =>
              /\ Count("torch2onnx") = 1
              /\ Count("extract_model") = (IF CfgApplyMarks THEN Len(CfgSplitParams) ELSE 0)
              /\ Len(calls) = 1 + Count("extract_model")
              /\ Len(reads) = Len(calls)
              /\ \A k \in DOMAIN reads : reads[k] = 0

(* A tensorrt configuration error raised after the export and two splits. *)
C15_Witness ==
    /\ TensorrtConfigError
    /\ ~MissingSplitParams
    /\ pc = "raised"
    /\ exc = "AssertionError"
    /\ Len(calls) = 3
    /\ Count("extract_model") = 2

----------------------------------------------------------------------------
(* main() has returned, exited or raised. *)
Terminal == pc \in {"done", "exited", "raised"}

(* The driver starts at most one worker for the export, one per split      *)
(* entry, one per model_params entry and two for the visualizations.       *)
BoundedCalls ==
    /\ Len(calls) <= 1 + Len(CfgSplitParams) + Len(CfgModelParams) + 2
    /\ Count("torch2onnx") <= 1
    /\ Count("extract_model") <= Len(CfgSplitParams)
    /\ Count("onnx2tensorrt") <= Len(CfgModelParams)
    /\ Count("inference_model") <= 2

(* Nothing happens after the driver terminated, and while a worker runs    *)
(* the driver takes no step: there is no timeout and no cancellation.      *)
DriverWaitsForWorker ==
    /\ ~Terminal
    /\ worker = "running" =>
         /\ pc' = pc /\ cp' = cp /\ cp = "join"
         /\ calls' = calls /\ log' = log /\ reads' = reads
         /\ exit_status' = exit_status /\ exc' = exc

(* C16: if every worker started eventually exits, the driver eventually    *)
(* terminates (overall success logged, exit after a failed step, or an     *)
(* error raised), having started a bounded number of workers, none twice   *)
(* for the same step; while a worker has not exited the driver takes no    *)
(* step, so a worker that never exits blocks it forever.                   *)
C16_Termination ==
    /\ <>Terminal
    /\ []BoundedCalls
    /\ [][DriverWaitsForWorker]_vars

(* The driver blocked in process.join() on the running worker of the last  *)
(* step.                                                                   *)
C16_Witness ==
    /\ worker = "running"
    /\ cp = "join"
    /\ pc = "visualize_pytorch"
    /\ ~ENABLED Driver

----------------------------------------------------------------------------
(* The stage of a collaborator. *)
StageOf(f) ==
    CASE f = "torch2onnx" -> 1
      [] f = "extract_model" -> 2
      [] f = "onnx2tensorrt" -> 3
      [] f = "inference_model" -> 4

(* The invocations of onnx2tensorrt, in order. *)
IsCompile(c) == c.fn = "onnx2tensorrt"
CompileCalls == SelectSeq(calls, IsCompile)
SplitCalls == SelectSeq(calls, IsSplit)

(* C17: the invocations of a run come in stage order and never go back:    *)
(* the export first and once, then the splits, one per split entry in      *)
(* declaration order, then the backend compiles, one per intermediate file *)
(* in file-list order, then the backend visualization, then the reference  *)
(* visualization; no invocation of an earlier stage follows one of a later *)
(* stage.                                                                  *)
C17_StageOrder ==
    /\ \A j, k \in DOMAIN calls :
           j < k => StageOf(calls[j].fn) <= StageOf(calls[k].fn)
    /\ Count("torch2onnx") <= 1
    /\ Len(calls) >= 1 => calls[1].fn = "torch2onnx"
    /\ Len(SplitCalls) <= Len(CfgSplitParams)
    /\ \A k \in DOMAIN SplitCalls :
           /\ SplitCalls[k].args[2] = CfgSplitParams[k].start
           /\ SplitCalls[k].args[3] = CfgSplitParams[k].end
           /\ SplitCalls[k].kwargs.save_file = Join(work_dir, CfgSplitParams[k].save_file)
    /\ Len(CompileCalls) <= Len(onnx_files)
    /\ \A k \in DOMAIN CompileCalls : CompileCalls[k].args[5] = onnx_files[k]
    /\ Len(InferenceCalls) <= 2
    /\ Len(InferenceCalls) >= 1 =>
           /\ InferenceCalls[1].kwargs.output_file = "output_" \o CfgBackend \o ".jpg"
           /\ InferenceCalls[1].args[2] = backend_files
    /\ Len(InferenceCalls) = 2 =>
           /\ InferenceCalls[2].kwargs.output_file = "output_pytorch.jpg"
           /\ InferenceCalls[2].args[2] = <<ArgCheckpoint>>

(* A run that went through all five stages, with two different splits. *)
C17_Witness ==
    /\ pc = "done"
    /\ Len(calls) = 7
    /\ Len(SplitCalls) = 2
    /\ Len(CompileCalls) = 2
    /\ SplitCalls[1].kwargs.save_file # SplitCalls[2].kwargs.save_file

(* Until the worker of the step under way writes the flag, the flag holds  *)
(* its default 0.                                                          *)
FlagKeepsDefault ==
    ((worker \in {"running", "exited"} \/ cp = "check") /\ writes = 0) => ret_value = 0

(* The flag test after a worker that wrote nothing reads 0, logs the       *)
(* step's success and returns to main(), which goes on with the next step  *)
(* (the final log line after the last one).                                *)
SilentExitTakenAsSuccess ==
    (cp = "check" /\ writes = 0) =>
        /\ reads' = Append(reads, 0)
        /\ log' = Append(log, [level |-> "info", step |-> pc, msg |-> "success"])
        /\ cp' = "idle"
        /\ pc' = Continue(pc)
        /\ pc' \notin {"exited", "raised"}
        /\ exit_status' = NoStatus
        /\ pc = "visualize_pytorch" => pc' = "all_success"

(* C18: if a worker exits without writing the flag, the flag keeps its     *)
(* default 0 and the driver treats the step as succeeded: it logs success  *)
(* for the step and goes on with the next step, up to logging overall      *)
(* success.                                                                *)
C18_SilentExitReadAsSuccess == []FlagKeepsDefault /\ [][SilentExitTakenAsSuccess]_vars

(* The driver at the flag test of the last step, whose worker exited       *)
(* without writing the flag.                                               *)
C18_Witness ==
    /\ cp = "check"
    /\ writes = 0
    /\ ret_value = 0
    /\ pc = "visualize_pytorch"
    /\ Len(calls) >= 3

ExpectedEngineName(k) ==
    IF "save_file" \in DOMAIN CfgModelParams[k]
    THEN CfgModelParams[k].save_file
    ELSE SplitextRoot(SplitTail(onnx_files[k])) \o EngineExt

(* C20: with the 'tensorrt' backend the k-th backend-compile invocation    *)
(* (k from 1) is given the k-th intermediate file, the output name of the  *)
(* k-th model_params entry or else the default made of that file's base    *)
(* name, and the model id k - 1 (ids count from 0); the backend-file list  *)
(* holds the artifact of every compile done, in order, and after the stage *)
(* it is as long as the intermediate-file list.                            *)
C20_CompilePairing ==
    CfgBackend = "tensorrt" =>
        /\ \A k \in DOMAIN CompileCalls :
               /\ k <= Len(onnx_files) /\ k <= Len(CfgModelParams)
               /\ CompileCalls[k].args[5] = onnx_files[k]
               /\ CompileCalls[k].args[2] = ExpectedEngineName(k)
               /\ CompileCalls[k].args[3] = k - 1
        /\ pc \in PastBackendHead =>
               /\ Len(backend_files) <= Len(CompileCalls)
               /\ \A k \in DOMAIN backend_files :
                      backend_files[k] = Join(work_dir, ExpectedEngineName(k))
        /\ pc \in PastBackend =>
               /\ Len(backend_files) = Len(onnx_files)
               /\ Len(CompileCalls) = Len(onnx_files)

(* Two compiles done: the first named by default after a.o, the second     *)
(* named c.e by its model_params entry.                                    *)
C20_Witness ==
    /\ CfgBackend = "tensorrt"
    /\ pc \in PastBackend
    /\ work_dir = WorkDirA
    /\ Len(CompileCalls) = 2
    /\ CompileCalls[1].args[2] = <<"a", ".", "e", "n", "g", "i", "n", "e">>
    /\ backend_files = << <<"/", "w", "/", "a", ".", "e", "n", "g", "i", "n", "e">>,
                          <<"/", "w", "/", "c", ".", "e">> >>

====
